---- MODULE Spec2Model ----
(***************************************************************************)
(* Model of the screenshot service (src/index.js): the BrowserPool, the    *)
(* RequestQueue, the idle cleanup timer and the /screenshot handler that   *)
(* drives them.                                                            *)
(*                                                                         *)
(* Node runs every callback to its next await without interleaving, so one *)
(* action is one such run: the synchronous part of a call, or the          *)
(* continuation of an await, with everything it calls.  The operations of  *)
(* the pool are operators from a pool state (a record of the pool's fields *)
(* and of the promises its callers wait on) to the pool state they leave,  *)
(* so that a handler that calls several of them in one run composes them.  *)
(***************************************************************************)
EXTENDS Integers, Sequences, FiniteSets, TLC

(***************************************************************************)
(* Bounds of the model.                                                    *)
(***************************************************************************)
\* calls of acquireBrowser (callers) in a run of the pool
MaxCalls == 3
\* browser instances puppeteer can launch in a run
MaxBrowsers == 3
\* callers in the runs checked for liveness
MaxFairCalls == 2
\* tasks given to the RequestQueue in a run of the queue
MaxTasks == 4
\* clock ticks a queued task is followed for
MaxWait == 2
\* callers of the pool whose creations are followed attempt by attempt
MaxCreateCalls == 2
\* clock ticks in a run of the cache on its own, and the values it is given
MaxCacheTime == 6
MaxValue == 2
\* requests to GET /screenshot in a run of the service
MaxRequests == 2
\* clock ticks in a run of the service
MaxTime == 4
\* height of the tallest page triggerLazyLoading is run on, in units of 108 px
MaxPageHeight == 30
\* the largest value of document.body.innerHTML.length that is sampled
MaxSample == 2
\* the longest value of the width parameter of a request, in characters
MaxParamLen == 3
\* clock ticks in a run of the MemoryMonitor, and calls of forceGC() followed
MaxMemTime == 6
MaxForced == 3

(***************************************************************************)
(* Configuration (CONFIG, src/index.js:8-37), in model units.              *)
(***************************************************************************)
\* CONFIG.BROWSER_POOL_SIZE, the poolSize of the BrowserPool: 1 is what the
\* code takes on Render (3 elsewhere, or the environment's BROWSER_POOL_SIZE)
poolSize == 1
\* maxRetries of acquireBrowser
acquireMaxRetries == 2
\* maxRetries and baseDelay of createBrowser (67-68), the delay in seconds
createMaxRetries == 3
baseDelay == 2
\* the delay of acquireBrowser before it retries a failed creation (569), in
\* seconds
acquireRetryDelay == 3
\* CONFIG.MAX_CONCURRENT_REQUESTS, the maxConcurrent of the RequestQueue: 2 is
\* what the code takes on Render (5 elsewhere, or MAX_CONCURRENT_REQUESTS)
maxConcurrent == 2

\* CONFIG.IDLE_TIMEOUT (5 minutes, or the environment's IDLE_TIMEOUT), in
\* clock ticks: one tick is half of it
IDLE_TIMEOUT == 2
\* CONFIG.CACHE_TTL (10 minutes, or CACHE_TTL), in clock ticks
CACHE_TTL == 4

Calls == 1 .. MaxCalls
\* the cache keys of the requests: md5 of url, width, height, fullPage, type
Keys == {"k1", "k2"}
\* no cache entry: what Map.get returns for a key that is not there
NoEntry == [value |-> 0, expiresAt |-> -1]
\* no response sent yet
NoResponse == [req |-> 0, status |-> 0, xcache |-> "none", key |-> "none", body |-> 0]
\* the initial previousContent of waitForContentStability: the string "",
\* which no sample, a number, is strictly equal to
NoSample == -1
\* no timer: idleTimeout is undefined, null, or a timer that fired or was cleared
NoTimer == -1
Tasks == 1 .. MaxTasks
\* no task: processQueue called no handler
NoTask == 0
BrowserIds == 1 .. MaxBrowsers
\* no browser: the null of `let browser = null`
NoBrowser == 0

VARIABLES
  \* BrowserPool fields
  browsers,           \* this.browsers: sequence of browser ids
  availableBrowsers,  \* this.availableBrowsers: sequence (used as a stack)
  waitingQueue,       \* this.waitingQueue: sequence of callbacks
  isShuttingDown,     \* this.isShuttingDown
  \* the renderer: browser.isConnected() of each launched browser
  connected,
  nextBrowser,        \* id of the next browser puppeteer launches
  \* the callers of acquireBrowser: where each one is
  pc,                 \* "idle" | "queued" | "creating" | "waiting" | "holding" | "cleanup" |
                      \* "released" | "failed" | "done"
  held,               \* the browser the caller holds: acquireBrowser returned it
  err,                \* why the caller's acquire was rejected
  retry,              \* retryCount of the caller's current acquireBrowser frame
  timer,              \* the caller's 60 s waiter timeout is armed
  via,                \* how the caller got the browser it holds: "available" | "handoff" | "created"
  okAt,               \* browser.isConnected() at the moment of that delivery
  \* progress of initialize() and shutdown()
  initI,              \* loop index i of initialize()
  closing,            \* a shutdown() is awaiting its closePromises
  \* RequestQueue fields
  running,            \* this.running
  queue,              \* this.queue: sequence of the tasks { handler, resolve, reject }
  \* the tasks given to addRequest: where each one is
  tstate,             \* "new" | "queued" | "running" | "resolved" | "rejected"
  dispatched,         \* the tasks whose handler was called, in the order of the calls
  waited,             \* clock ticks the task has spent in this.queue
  \* the service: globals of index.js and SimpleCache
  listening,          \* app.listen was called (1550-1551)
  now,                \* Date.now(), in clock ticks
  lastActivity,       \* lastActivity
  idleTimeout,        \* idleTimeout: the time its timer fires at, or NoTimer
  cache,              \* cache.cache: key -> [value, expiresAt]
  rkey,               \* cacheKey of each request whose handler has not ended
  lastEvent,          \* time of the last request arrival or handler completion
  sent,               \* the last response sent: [req, status, xcache, key, body]
  \* createBrowser as called by acquireBrowser, launch by launch
  attempt,            \* retryCount of the caller's running createBrowser
  launches,           \* launches the caller's acquire has made so far
  slept,              \* delays the caller's acquire has slept so far, in seconds
  \* SimpleCache called on its own
  result,             \* the last call of the cache: [op, key, value, found], found
                      \* telling whether get had an entry (`item`) for the key
  \* one render, from waitForPageLoad to page.screenshot
  dpc,                \* "idle" | "stage" | "returned" | "threw" | "captured"
  stage,              \* the step of waitForPageLoad that is awaited, 1 .. 10
  outcomes,           \* how the steps entered so far have ended, in order
  \* one call of triggerLazyLoading: the script it runs in the page
  lpc,                \* "idle" | "scrolling" | "done"
  scrollHeight,       \* document.body.scrollHeight as the script read it
  viewportHeight,     \* window.innerHeight
  currentPosition,    \* currentPosition
  lazyElapsed,        \* time the script has slept so far, in units of 100 ms
  \* one call of shutdown(), close by close
  closes,             \* per browser: "none", "pending", or how the await of its
                      \* close ended: "returned" | "threw" | "timeout" | "rejected"
  closeTimers,        \* per browser: the 10 s timeout of its close is armed
  shutdownOutcome,    \* "none" | "completed" | "threw"
  \* one call of waitForContentStability
  spc,                \* "idle" | "sampling" | "stable" | "gaveup"
  previousContent,    \* previousContent
  stableCount,        \* stableCount
  checks,             \* passes of the loop made so far (i)
  samples,            \* the values of currentContent so far, in order
  \* MemoryMonitor
  mpc,                \* "down" | "up": the process has started
  gcAvailable,        \* global.gc is there (node was started with --expose-gc)
  heapHigh,           \* process.memoryUsage().heapUsed > this.threshold
  lastGC,             \* this.lastGC
  forced,             \* the times at which forceGC() was called, in order
  \* the cache key of GET /screenshot
  kpc,                \* "none" | "one" | "two": the requests that have arrived
  reqA, reqB,         \* req.query of the first and of the second request
  keyA, keyB          \* the strings their cache keys are the md5 of

poolVars == <<browsers, availableBrowsers, waitingQueue, isShuttingDown, connected,
              nextBrowser, pc, held, err, retry, timer, via, okAt>>
lifeVars == <<initI, closing>>
queueVars == <<running, queue>>
taskVars == <<tstate, dispatched, waited>>
svcVars == <<listening, now, lastActivity, idleTimeout, cache, rkey, lastEvent, sent>>
createVars == <<attempt, launches, slept>>
readyVars == <<dpc, stage, outcomes>>
lazyVars == <<lpc, scrollHeight, viewportHeight, currentPosition, lazyElapsed>>
closeVars == <<closes, closeTimers, shutdownOutcome>>
stabVars == <<spc, previousContent, stableCount, checks, samples>>
memVars == <<mpc, gcAvailable, heapHigh, lastGC, forced>>
keyVars == <<kpc, reqA, reqB, keyA, keyB>>
vars == <<poolVars, lifeVars, queueVars, taskVars, svcVars, createVars, result, readyVars,
          lazyVars, closeVars, stabVars, memVars, keyVars>>
\* what the pool's own steps leave alone, and what the queue's own steps do
outsidePool == <<queueVars, taskVars, svcVars, createVars, result, readyVars, lazyVars,
                 closeVars, stabVars, memVars, keyVars>>
outsideQueue == <<poolVars, lifeVars, svcVars, createVars, result, readyVars, lazyVars,
                  closeVars, stabVars, memVars, keyVars>>

(***************************************************************************)
(* Sequence helpers: Array.prototype.indexOf / splice / pop / shift.       *)
(***************************************************************************)
Range(s) == {s[i] : i \in 1 .. Len(s)}

\* Array.prototype.indexOf, 1-based; 0 when absent (the -1 of JavaScript)
IndexOf(s, x) ==
  IF \E i \in 1 .. Len(s) : s[i] = x
  THEN CHOOSE i \in 1 .. Len(s) : s[i] = x /\ \A j \in 1 .. i - 1 : s[j] # x
  ELSE 0

\* s.splice(i, 1), 1-based
SpliceOut(s, i) == SubSeq(s, 1, i - 1) \o SubSeq(s, i + 1, Len(s))

\* `index = s.indexOf(x); if (index > -1) s.splice(index, 1)`
RemoveFirst(s, x) == IF IndexOf(s, x) > 0 THEN SpliceOut(s, IndexOf(s, x)) ELSE s

(***************************************************************************)
(* The pool state the operations work on.                                  *)
(***************************************************************************)
Cur ==
  [browsers |-> browsers, availableBrowsers |-> availableBrowsers,
   waitingQueue |-> waitingQueue, isShuttingDown |-> isShuttingDown,
   connected |-> connected, nextBrowser |-> nextBrowser,
   pc |-> pc, held |-> held, err |-> err, retry |-> retry, timer |-> timer,
   via |-> via, okAt |-> okAt]

SetPool(S) ==
  /\ browsers' = S.browsers
  /\ availableBrowsers' = S.availableBrowsers
  /\ waitingQueue' = S.waitingQueue
  /\ isShuttingDown' = S.isShuttingDown
  /\ connected' = S.connected
  /\ nextBrowser' = S.nextBrowser
  /\ pc' = S.pc
  /\ held' = S.held
  /\ err' = S.err
  /\ retry' = S.retry
  /\ timer' = S.timer
  /\ via' = S.via
  /\ okAt' = S.okAt

(***************************************************************************)
(* The callbacks a parked caller leaves behind (acquireBrowser, 586-605):  *)
(* `resolve` is the resolve function of the caller's promise, and the      *)
(* arrow function pushed on waitingQueue is another function object, that  *)
(* clears the timeout and calls resolve.                                   *)
(***************************************************************************)
ResolveFn(k) == [fn |-> "resolve", call |-> k]
WrapperFn(k) == [fn |-> "wrapper", call |-> k]

\* The caller's promise is settled with browser b: acquireBrowser returns b.
Deliver(S, k, b, how) ==
  [S EXCEPT !.pc[k] = "holding", !.held[k] = b, !.retry[k] = 0,
            !.via[k] = how, !.okAt[k] = S.connected[b]]

\* The caller's promise is rejected.
Reject(S, k, why) == [S EXCEPT !.pc[k] = "failed", !.err[k] = why, !.retry[k] = 0]

\* resolve(x) of the promise of a parked caller: a promise settles once, a
\* second resolve or reject of it does nothing.  x is a browser, or the
\* rejected promise shutdown() passes.
ResolveWaiter(S, k, x) ==
  IF S.pc[k] # "waiting" THEN S
  ELSE IF x = NoBrowser THEN Reject(S, k, "shutdown")
  ELSE Deliver(S, k, x, "handoff")

\* The arrow function of 600-604 called with x.
CallWrapper(S, k, x) == ResolveWaiter([S EXCEPT !.timer[k] = FALSE], k, x)

(***************************************************************************)
(* BrowserPool                                                             *)
(***************************************************************************)
isBrowserHealthy_Always(S, b) == TRUE

\* isBrowserHealthy: `browser && !browser.isConnected() === false`
isBrowserHealthy(S, b) == b # NoBrowser /\ (~S.connected[b]) = FALSE

\* removeBrowser: out of browsers and availableBrowsers, and closed when it is
\* still connected (after close() the browser is disconnected)
removeBrowser(S, b) ==
  [S EXCEPT !.browsers = RemoveFirst(@, b),
            !.availableBrowsers = RemoveFirst(@, b),
            !.connected[b] = FALSE]

PopAvailable_Peek(av) == av

\* what availableBrowsers.pop() leaves
PopAvailable(av) == SubSeq(av, 1, Len(av) - 1)

ParkTimer_None(k) == FALSE

\* the setTimeout(..., 60000) of a parked caller
ParkTimer(k) == TRUE

\* The synchronous part of acquireBrowser(retryCount) for caller k: up to its
\* first await, or to the promise it returns.
RECURSIVE acquireBrowser(_, _, _)
acquireBrowser(S, k, retryCount) ==
  IF S.isShuttingDown THEN Reject(S, k, "shutdown")
  ELSE IF Len(S.availableBrowsers) > 0
  THEN LET b == S.availableBrowsers[Len(S.availableBrowsers)]
           S1 == [S EXCEPT !.availableBrowsers = PopAvailable(@)]
       IN IF isBrowserHealthy(S1, b)
          THEN Deliver(S1, k, b, "available")
          ELSE acquireBrowser(removeBrowser(S1, b), k, retryCount)
  ELSE IF Len(S.browsers) < poolSize
  THEN [S EXCEPT !.pc[k] = "creating", !.retry[k] = retryCount]
  ELSE [S EXCEPT !.pc[k] = "waiting", !.retry[k] = retryCount,
                 !.timer[k] = ParkTimer(k),
                 !.waitingQueue = Append(@, WrapperFn(k))]

\* The timeout callback of a parked caller (587-598).
waiterTimeout(S, k) ==
  LET index == IndexOf(S.waitingQueue, ResolveFn(k))
      S1 == [S EXCEPT !.timer[k] = FALSE,
                      !.waitingQueue = IF index > 0 THEN SpliceOut(@, index) ELSE @]
  IN IF S1.pc[k] = "waiting" THEN Reject(S1, k, "timeout") ELSE S1

\* releaseBrowser(browser)
releaseBrowser(S, b) ==
  IF S.isShuttingDown THEN removeBrowser(S, b)
  ELSE IF isBrowserHealthy(S, b)
  THEN IF Len(S.waitingQueue) > 0
       THEN CallWrapper([S EXCEPT !.waitingQueue = Tail(@)],
                        Head(S.waitingQueue).call, b)
       ELSE [S EXCEPT !.availableBrowsers = Append(@, b)]
  ELSE removeBrowser(S, b)

RejectAll_None(S, q) == S

\* shutdown(), to its await: the flag, the waiters rejected, the queue emptied
RECURSIVE RejectAll(_, _)
RejectAll(S, q) ==
  IF q = <<>> THEN S ELSE RejectAll(CallWrapper(S, Head(q).call, NoBrowser), Tail(q))

shutdownBegin(S) ==
  [RejectAll([S EXCEPT !.isShuttingDown = TRUE], S.waitingQueue)
     EXCEPT !.waitingQueue = <<>>]

\* shutdown(), after `await Promise.all(closePromises)`
shutdownEnd(S) ==
  [S EXCEPT !.browsers = <<>>, !.availableBrowsers = <<>>,
            !.connected = [b \in BrowserIds |->
                             IF b \in Range(S.browsers) THEN FALSE ELSE @[b]]]

\* a query string without parameters; a parameter is a sequence of
\* characters, the empty one when it is absent (or empty)
NoQuery == [url |-> <<>>, width |-> <<>>, height |-> <<>>, fullPage |-> <<>>, type |-> <<>>]

(***************************************************************************)
(* The state after the constructors (844-851).                             *)
(***************************************************************************)
Init ==
  /\ browsers = <<>>
  /\ availableBrowsers = <<>>
  /\ waitingQueue = <<>>
  /\ isShuttingDown = FALSE
  /\ connected = [b \in BrowserIds |-> FALSE]
  /\ nextBrowser = 1
  /\ pc = [k \in Calls |-> "idle"]
  /\ held = [k \in Calls |-> NoBrowser]
  /\ err = [k \in Calls |-> "none"]
  /\ retry = [k \in Calls |-> 0]
  /\ timer = [k \in Calls |-> FALSE]
  /\ via = [k \in Calls |-> "none"]
  /\ okAt = [k \in Calls |-> FALSE]
  /\ initI = 0
  /\ closing = FALSE
  /\ running = 0
  /\ queue = <<>>
  /\ tstate = [t \in Tasks |-> "new"]
  /\ dispatched = <<>>
  /\ waited = [t \in Tasks |-> 0]
  /\ listening = FALSE
  /\ now = 0
  /\ lastActivity = 0
  /\ idleTimeout = NoTimer
  /\ cache = [key \in Keys |-> NoEntry]
  /\ rkey = [k \in Calls |-> "k1"]
  /\ lastEvent = 0
  /\ sent = NoResponse
  /\ attempt = [k \in Calls |-> 0]
  /\ launches = [k \in Calls |-> 0]
  /\ slept = [k \in Calls |-> <<>>]
  /\ result = [op |-> "none", key |-> "k1", value |-> 0, found |-> FALSE]
  /\ dpc = "idle"
  /\ stage = 0
  /\ outcomes = <<>>
  /\ lpc = "idle"
  /\ scrollHeight = 0
  /\ viewportHeight = 0
  /\ currentPosition = 0
  /\ lazyElapsed = 0
  /\ closes = [b \in BrowserIds |-> "none"]
  /\ closeTimers = [b \in BrowserIds |-> FALSE]
  /\ shutdownOutcome = "none"
  /\ spc = "idle"
  /\ previousContent = NoSample
  /\ stableCount = 0
  /\ checks = 0
  /\ samples = <<>>
  /\ mpc = "down"
  /\ gcAvailable = FALSE
  /\ heapHigh = FALSE
  /\ lastGC = 0
  /\ forced = <<>>
  /\ kpc = "none"
  /\ reqA = NoQuery
  /\ reqB = NoQuery
  /\ keyA = <<>>
  /\ keyB = <<>>

(***************************************************************************)
(* The pool on its own: initialize(), then callers that acquire, hold and  *)
(* release (the /screenshot handlers and the unqueued /test-loading        *)
(* handlers), browsers that lose their connection, and shutdown().         *)
(***************************************************************************)
\* initialize() has returned: the server listens only then (1550-1551)
Initialized == initI = poolSize

\* puppeteer launches a browser: a new, connected instance
Launch(S) == [S EXCEPT !.connected[S.nextBrowser] = TRUE, !.nextBrowser = @ + 1]

\* acquireBrowser after `await this.createBrowser()` returned (557-560)
created(S, k) ==
  Deliver([Launch(S) EXCEPT !.browsers = Append(@, S.nextBrowser)],
          k, S.nextBrowser, "created")

creationFailed_NoRetry(S, k) == Reject(S, k, "creation")

creationFailed_Registers(S, k) ==
  Reject([S EXCEPT !.browsers = Append(@, S.nextBrowser)], k, "creation")

\* acquireBrowser after `await this.createBrowser()` threw (561-581), to the
\* end of its 3 s delay
creationFailed(S, k) ==
  IF S.retry[k] < acquireMaxRetries
  THEN acquireBrowser(S, k, S.retry[k] + 1)
  ELSE Reject(S, k, "creation")

\* one pass of the loop of initialize() whose createBrowser() succeeds
InitializeOk ==
  /\ initI < poolSize
  /\ nextBrowser <= MaxBrowsers
  /\ SetPool([Launch(Cur) EXCEPT !.browsers = Append(@, nextBrowser),
                                 !.availableBrowsers = Append(@, nextBrowser)])
  /\ initI' = initI + 1
  /\ UNCHANGED <<closing, outsidePool>>

\* one pass of the loop of initialize() whose createBrowser() throws
InitializeFail ==
  /\ initI < poolSize
  /\ initI' = initI + 1
  /\ UNCHANGED <<poolVars, closing, outsidePool>>

\* a caller calls acquireBrowser(): callers start in the order of their ids
Acquire(k) ==
  /\ Initialized
  /\ pc[k] = "idle"
  /\ \A j \in Calls : j < k => pc[j] # "idle"
  /\ SetPool(acquireBrowser(Cur, k, 0))
  /\ UNCHANGED <<lifeVars, outsidePool>>

\* `await this.createBrowser()` of acquireBrowser returns a browser (557-560)
CreateOk(k) ==
  /\ pc[k] = "creating"
  /\ nextBrowser <= MaxBrowsers
  /\ SetPool(created(Cur, k))
  /\ UNCHANGED <<lifeVars, outsidePool>>

\* `await this.createBrowser()` of acquireBrowser throws (561-581): after the
\* 3 s delay the caller is back in acquireBrowser(retryCount + 1), or, out of
\* retries, its acquire is rejected.  Nothing of the pool changes between the
\* throw and the end of the delay, so the two are one step.
CreateFail(k) ==
  /\ pc[k] = "creating"
  /\ SetPool(creationFailed(Cur, k))
  /\ UNCHANGED <<lifeVars, outsidePool>>

\* the 60 s timeout of a parked caller fires
WaiterTimeout(k) ==
  /\ timer[k]
  /\ SetPool(waiterTimeout(Cur, k))
  /\ UNCHANGED <<lifeVars, outsidePool>>

\* the caller hands its browser back: browserPool.releaseBrowser(browser)
Release(k) ==
  /\ pc[k] = "holding"
  /\ SetPool(releaseBrowser([Cur EXCEPT !.pc[k] = "released", !.held[k] = NoBrowser,
                                         !.via[k] = "none", !.okAt[k] = FALSE],
                             held[k]))
  /\ UNCHANGED <<lifeVars, outsidePool>>

\* a browser crashes or drops its connection
Disconnect(b) ==
  /\ connected[b]
  /\ connected' = [connected EXCEPT ![b] = FALSE]
  /\ UNCHANGED <<browsers, availableBrowsers, waitingQueue, isShuttingDown,
                 nextBrowser, pc, held, err, retry, timer, via, okAt, lifeVars,
                 outsidePool>>

\* shutdown() is called; with no connected browser to close it runs through
ShutdownBegin ==
  /\ Initialized
  /\ ~closing
  /\ LET S == shutdownBegin(Cur)
     IN IF \E i \in 1 .. Len(S.browsers) : S.connected[S.browsers[i]]
        THEN SetPool(S) /\ closing' = TRUE
        ELSE SetPool(shutdownEnd(S)) /\ closing' = FALSE
  /\ UNCHANGED <<initI, outsidePool>>

\* the closes of shutdown() are over, or were given up after 10 s
ShutdownEnd ==
  /\ closing
  /\ SetPool(shutdownEnd(Cur))
  /\ closing' = FALSE
  /\ UNCHANGED <<initI, outsidePool>>

PoolNext ==
  \/ InitializeOk
  \/ InitializeFail
  \/ \E k \in Calls : Acquire(k)
  \/ \E k \in Calls : CreateOk(k)
  \/ \E k \in Calls : CreateFail(k)
  \/ \E k \in Calls : WaiterTimeout(k)
  \/ \E k \in Calls : Release(k)
  \/ \E b \in BrowserIds : Disconnect(b)
  \/ ShutdownBegin
  \/ ShutdownEnd

PoolSpec == Init /\ [][PoolNext]_vars

\* The pool with at most MaxFairCalls callers, and with its timers: a timer
\* that is armed and not cleared fires.
PoolFairNext ==
  \/ InitializeOk
  \/ InitializeFail
  \/ \E k \in 1 .. MaxFairCalls : Acquire(k)
  \/ \E k \in Calls : CreateOk(k)
  \/ \E k \in Calls : CreateFail(k)
  \/ \E k \in Calls : WaiterTimeout(k)
  \/ \E k \in Calls : Release(k)
  \/ \E b \in BrowserIds : Disconnect(b)
  \/ ShutdownBegin
  \/ ShutdownEnd

PoolFairSpec ==
  /\ Init
  /\ [][PoolFairNext]_vars
  /\ \A k \in Calls : WF_vars(WaiterTimeout(k))

(***************************************************************************)
(* shutdown() seen close by close (686-711): what PoolSpec has as one step *)
(* from ShutdownBegin to ShutdownEnd is here the close of each browser,    *)
(* which returns, throws, or does neither, and its 10 s timeout.           *)
(***************************************************************************)
awaitedClose_Propagate(how) == IF how = "returned" THEN how ELSE "rejected"

\* how the promise of one browser's callback (687-706) settles when the race
\* of its close and its timeout ended in `how`: the .catch and the try/catch
\* swallow every rejection, so it is fulfilled in each case
awaitedClose(how) == how

\* shutdown() is called: the flag, the waiters, and a close with its timeout
\* started for every connected browser of the pool
ShutdownCalled ==
  /\ Initialized
  /\ ~closing
  /\ shutdownOutcome = "none"
  /\ LET S == shutdownBegin(Cur)
         toClose == {b \in Range(S.browsers) : S.connected[b]}
     IN /\ SetPool(S)
        /\ closes' = [b \in BrowserIds |-> IF b \in toClose THEN "pending" ELSE "none"]
        /\ closeTimers' = [b \in BrowserIds |-> b \in toClose]
  /\ closing' = TRUE
  /\ UNCHANGED <<initI, shutdownOutcome, queueVars, taskVars, svcVars, createVars, result,
                 readyVars, lazyVars, stabVars, memVars, keyVars>>

\* browser.close() of browser b returns: the browser is closed
CloseReturns(b) ==
  /\ closes[b] = "pending"
  /\ closes' = [closes EXCEPT ![b] = awaitedClose("returned")]
  /\ connected' = [connected EXCEPT ![b] = FALSE]
  /\ UNCHANGED <<browsers, availableBrowsers, waitingQueue, isShuttingDown, nextBrowser, pc,
                 held, err, retry, timer, via, okAt, lifeVars, closeTimers, shutdownOutcome,
                 queueVars, taskVars, svcVars, createVars, result, readyVars, lazyVars,
                 stabVars, memVars, keyVars>>

\* browser.close() of browser b throws or rejects
CloseThrows(b) ==
  /\ closes[b] = "pending"
  /\ closes' = [closes EXCEPT ![b] = awaitedClose("threw")]
  /\ UNCHANGED <<poolVars, lifeVars, closeTimers, shutdownOutcome, queueVars, taskVars,
                 svcVars, createVars, result, readyVars, lazyVars, stabVars, memVars,
                 keyVars>>

\* the 10 s timeout of the close of browser b fires (692-694): it ends the
\* race if the close has not
CloseTimeout(b) ==
  /\ closeTimers[b]
  /\ closeTimers' = [closeTimers EXCEPT ![b] = FALSE]
  /\ closes' = [closes EXCEPT ![b] = IF @ = "pending" THEN awaitedClose("timeout") ELSE @]
  /\ UNCHANGED <<poolVars, lifeVars, shutdownOutcome, queueVars, taskVars, svcVars,
                 createVars, result, readyVars, lazyVars, stabVars, memVars, keyVars>>

\* `await Promise.all(closePromises)` is over (708-711): shutdown() empties
\* the lists and returns, or throws what Promise.all was rejected with
ShutdownCompletes ==
  /\ closing
  /\ shutdownOutcome = "none"
  /\ \A b \in BrowserIds : closes[b] # "pending"
  /\ closing' = FALSE
  /\ IF \E b \in BrowserIds : closes[b] = "rejected"
     THEN shutdownOutcome' = "threw" /\ UNCHANGED poolVars
     ELSE shutdownOutcome' = "completed" /\ SetPool(shutdownEnd(Cur))
  /\ UNCHANGED <<initI, closes, closeTimers, queueVars, taskVars, svcVars, createVars,
                 result, readyVars, lazyVars, stabVars, memVars, keyVars>>

ShutdownNext ==
  \/ InitializeOk
  \/ InitializeFail
  \/ \E k \in 1 .. MaxFairCalls : Acquire(k)
  \/ \E k \in Calls : CreateOk(k)
  \/ \E k \in Calls : Release(k)
  \/ \E b \in BrowserIds : Disconnect(b)
  \/ ShutdownCalled
  \/ \E b \in BrowserIds : CloseReturns(b)
  \/ \E b \in BrowserIds : CloseThrows(b)
  \/ \E b \in BrowserIds : CloseTimeout(b)
  \/ ShutdownCompletes

\* timers that are armed fire, and a promise whose inputs are all settled
\* runs its continuation; a close need not ever return
ShutdownSpec ==
  /\ Init
  /\ [][ShutdownNext]_vars
  /\ \A b \in BrowserIds : WF_vars(CloseTimeout(b))
  /\ WF_vars(ShutdownCompletes)

(***************************************************************************)
(* The pool with createBrowser seen attempt by attempt: what PoolSpec has  *)
(* as one failed or successful `await this.createBrowser()` is here the    *)
(* attempts and the delays of createBrowser (66-525).                      *)
(***************************************************************************)
createDelay_Linear(retryCount) == baseDelay * (retryCount + 1)

\* the delay of createBrowser before its retry (509), in seconds
createDelay(retryCount) == baseDelay * 2 ^ retryCount

\* an attempt of createBrowser succeeds: it returns the browser (495)
LaunchSucceeds(k) ==
  /\ pc[k] = "creating"
  /\ nextBrowser <= MaxBrowsers
  /\ SetPool(created(Cur, k))
  /\ attempt' = [attempt EXCEPT ![k] = 0]
  /\ launches' = [launches EXCEPT ![k] = @ + 1]
  /\ UNCHANGED <<slept, lifeVars, queueVars, taskVars, svcVars, result, readyVars, lazyVars,
                 closeVars, stabVars, memVars, keyVars>>

\* an attempt of createBrowser fails (503-524): it sleeps and calls itself,
\* or, out of retries, throws to acquireBrowser (561-581)
LaunchFails(k) ==
  /\ pc[k] = "creating"
  /\ launches' = [launches EXCEPT ![k] = @ + 1]
  /\ IF attempt[k] < createMaxRetries
     THEN /\ attempt' = [attempt EXCEPT ![k] = @ + 1]
          /\ slept' = [slept EXCEPT ![k] = Append(@, createDelay(attempt[k]))]
          /\ UNCHANGED poolVars
     ELSE /\ attempt' = [attempt EXCEPT ![k] = 0]
          /\ slept' = [slept EXCEPT ![k] = IF retry[k] < acquireMaxRetries
                                           THEN Append(@, acquireRetryDelay)
                                           ELSE @]
          /\ SetPool(creationFailed(Cur, k))
  /\ UNCHANGED <<lifeVars, queueVars, taskVars, svcVars, result, readyVars, lazyVars,
                 closeVars, stabVars, memVars, keyVars>>

CreateNext ==
  \/ InitializeOk
  \/ InitializeFail
  \/ \E k \in 1 .. MaxCreateCalls : Acquire(k)
  \/ \E k \in Calls : LaunchSucceeds(k)
  \/ \E k \in Calls : LaunchFails(k)
  \/ \E k \in Calls : WaiterTimeout(k)
  \/ \E k \in Calls : Release(k)

CreateSpec == Init /\ [][CreateNext]_vars

(***************************************************************************)
(* RequestQueue                                                            *)
(***************************************************************************)
QCur == [running |-> running, queue |-> queue, started |-> NoTask]

QueueShift_Pop(q) == [taken |-> q[Len(q)], rest |-> SubSeq(q, 1, Len(q) - 1)]

\* this.queue.shift(): the task it returns and the queue it leaves
QueueShift(q) == [taken |-> Head(q), rest |-> Tail(q)]

processQueue_OffByOne(Q) ==
  IF Q.running > maxConcurrent \/ Len(Q.queue) = 0
  THEN [Q EXCEPT !.started = NoTask]
  ELSE [running |-> Q.running + 1, queue |-> QueueShift(Q.queue).rest,
        started |-> QueueShift(Q.queue).taken]

processQueue_DropWhenFull(Q) ==
  IF Len(Q.queue) = 0 THEN [Q EXCEPT !.started = NoTask]
  ELSE IF Q.running >= maxConcurrent
  THEN [Q EXCEPT !.queue = QueueShift(@).rest, !.started = NoTask]
  ELSE [running |-> Q.running + 1, queue |-> QueueShift(Q.queue).rest,
        started |-> QueueShift(Q.queue).taken]

\* processQueue, to the call of the handler (741-749): `started` is the task
\* whose handler it calls, NoTask when it returns at once
processQueue(Q) ==
  IF Q.running >= maxConcurrent \/ Len(Q.queue) = 0
  THEN [Q EXCEPT !.started = NoTask]
  ELSE [running |-> Q.running + 1, queue |-> QueueShift(Q.queue).rest,
        started |-> QueueShift(Q.queue).taken]

addRequest_NoDispatch(Q, t) == [Q EXCEPT !.queue = Append(@, t), !.started = NoTask]

\* addRequest(handler) for task t (733-737)
addRequest(Q, t) == processQueue([Q EXCEPT !.queue = Append(@, t)])

handlerSettled_NoDispatch(Q) == [Q EXCEPT !.running = @ - 1, !.started = NoTask]

\* processQueue, after `await handler()` (750-756): the task's promise is
\* settled, then `this.running--; this.processQueue()`
handlerSettled(Q) == processQueue([Q EXCEPT !.running = @ - 1])

(***************************************************************************)
(* The queue on its own: tasks are submitted, their handlers run and end.  *)
(* Tasks are submitted in the order of their ids.                          *)
(***************************************************************************)
SetQueue(Q) ==
  /\ running' = Q.running
  /\ queue' = Q.queue

\* the handler of Q.started is called, if processQueue called one
HandlerCalled(ts, Q) ==
  IF Q.started = NoTask THEN ts ELSE [ts EXCEPT ![Q.started] = "running"]

LogCall(Q) ==
  dispatched' = IF Q.started = NoTask THEN dispatched ELSE Append(dispatched, Q.started)

AddRequest(t) ==
  /\ tstate[t] = "new"
  /\ \A u \in Tasks : u < t => tstate[u] # "new"
  /\ LET Q == addRequest(QCur, t)
     IN /\ SetQueue(Q)
        /\ tstate' = HandlerCalled([tstate EXCEPT ![t] = "queued"], Q)
        /\ LogCall(Q)
  /\ UNCHANGED <<waited, outsideQueue>>

\* the handler of task t returns: resolve(result), then the finally
HandlerResolves(t) ==
  /\ tstate[t] = "running"
  /\ LET Q == handlerSettled(QCur)
     IN /\ SetQueue(Q)
        /\ tstate' = HandlerCalled([tstate EXCEPT ![t] = "resolved"], Q)
        /\ LogCall(Q)
  /\ UNCHANGED <<waited, outsideQueue>>

\* the handler of task t throws: reject(error), then the finally
HandlerRejects(t) ==
  /\ tstate[t] = "running"
  /\ LET Q == handlerSettled(QCur)
     IN /\ SetQueue(Q)
        /\ tstate' = HandlerCalled([tstate EXCEPT ![t] = "rejected"], Q)
        /\ LogCall(Q)
  /\ UNCHANGED <<waited, outsideQueue>>

\* time passes: every task in the queue has waited one tick more
QueueTick ==
  /\ \E t \in Tasks : tstate[t] = "queued" /\ waited[t] < MaxWait
  /\ waited' = [t \in Tasks |->
                  IF tstate[t] = "queued" /\ waited[t] < MaxWait
                  THEN waited[t] + 1 ELSE waited[t]]
  /\ UNCHANGED <<queueVars, tstate, dispatched, outsideQueue>>

QueueNext ==
  \/ \E t \in Tasks : AddRequest(t)
  \/ \E t \in Tasks : HandlerResolves(t)
  \/ \E t \in Tasks : HandlerRejects(t)
  \/ QueueTick

QueueSpec == Init /\ [][QueueNext]_vars

\* the queue when every handler that was called ends, by returning or by
\* throwing
QueueFairSpec ==
  /\ Init /\ [][QueueNext]_vars
  /\ \A t \in Tasks : WF_vars(HandlerResolves(t) \/ HandlerRejects(t))

(***************************************************************************)
(* SimpleCache                                                             *)
(***************************************************************************)
cacheGet_AlwaysMiss(c, key, t) == [value |-> 0, cache |-> c]

cacheGet_NoExpiry(c, key, t) == [value |-> c[key].value, cache |-> c]

\* get(key) at time t: the value it returns (0 for null) and the map it leaves
cacheGet(c, key, t) ==
  IF c[key] = NoEntry THEN [value |-> 0, cache |-> c]
  ELSE IF t > c[key].expiresAt
  THEN [value |-> 0, cache |-> [c EXCEPT ![key] = NoEntry]]
  ELSE [value |-> c[key].value, cache |-> c]

cacheSet_KeepOld(c, key, value, t) ==
  IF c[key] # NoEntry THEN c
  ELSE [c EXCEPT ![key] = [value |-> value, expiresAt |-> t + CACHE_TTL]]

\* set(key, value) at time t
cacheSet(c, key, value, t) ==
  [c EXCEPT ![key] = [value |-> value, expiresAt |-> t + CACHE_TTL]]

\* clear()
cacheClear == [key \in Keys |-> NoEntry]

\* size() at time t: the number it returns and the map it leaves
cacheSize(c, t) ==
  LET kept == [key \in Keys |->
                 IF c[key] # NoEntry /\ t > c[key].expiresAt THEN NoEntry ELSE c[key]]
  IN [count |-> Cardinality({key \in Keys : kept[key] # NoEntry}), cache |-> kept]

(***************************************************************************)
(* The cache on its own: calls of set, get, size and clear as time passes. *)
(***************************************************************************)
Values == 1 .. MaxValue

CacheSet(key, value) ==
  /\ cache' = cacheSet(cache, key, value, now)
  /\ result' = [op |-> "set", key |-> key, value |-> value, found |-> FALSE]
  /\ UNCHANGED <<poolVars, lifeVars, queueVars, taskVars, createVars, readyVars, lazyVars,
                 closeVars, listening, now, lastActivity, idleTimeout, rkey, lastEvent, sent,
                 stabVars, memVars, keyVars>>

CacheGet(key) ==
  /\ cache' = cacheGet(cache, key, now).cache
  /\ result' = [op |-> "get", key |-> key, value |-> cacheGet(cache, key, now).value,
                found |-> cache[key] # NoEntry]
  /\ UNCHANGED <<poolVars, lifeVars, queueVars, taskVars, createVars, readyVars, lazyVars,
                 closeVars, listening, now, lastActivity, idleTimeout, rkey, lastEvent, sent,
                 stabVars, memVars, keyVars>>

CacheSize ==
  /\ cache' = cacheSize(cache, now).cache
  /\ result' = [op |-> "size", key |-> "k1", value |-> cacheSize(cache, now).count,
                found |-> FALSE]
  /\ UNCHANGED <<poolVars, lifeVars, queueVars, taskVars, createVars, readyVars, lazyVars,
                 closeVars, listening, now, lastActivity, idleTimeout, rkey, lastEvent, sent,
                 stabVars, memVars, keyVars>>

CacheClear ==
  /\ cache' = cacheClear
  /\ result' = [op |-> "clear", key |-> "k1", value |-> 0, found |-> FALSE]
  /\ UNCHANGED <<poolVars, lifeVars, queueVars, taskVars, createVars, readyVars, lazyVars,
                 closeVars, listening, now, lastActivity, idleTimeout, rkey, lastEvent, sent,
                 stabVars, memVars, keyVars>>

\* the clock advances by one tick
CacheTick ==
  /\ now < MaxCacheTime
  /\ now' = now + 1
  /\ UNCHANGED <<poolVars, lifeVars, queueVars, taskVars, createVars, result, readyVars,
                 lazyVars, closeVars, listening, lastActivity, idleTimeout, cache, rkey,
                 lastEvent, sent, stabVars, memVars, keyVars>>

CacheNext ==
  \/ \E key \in Keys, value \in Values : CacheSet(key, value)
  \/ \E key \in Keys : CacheGet(key)
  \/ CacheSize
  \/ CacheClear
  \/ CacheTick

CacheSpec == Init /\ [][CacheNext]_vars

(***************************************************************************)
(* waitForPageLoad within one render: its ten steps, each of which ends    *)
(* well or fails (throws or times out), then page.screenshot.              *)
(***************************************************************************)
\* the steps of waitForPageLoad (869-942)
Stages == 1 .. 10

\* the steps that can fail: step 9 is a bare setTimeout
CanFail(i) == i # 9

\* the steps whose failure is caught where it happens: dismissCookieConsent,
\* waitForContentStability, triggerLazyLoading and waitForCriticalContent
\* catch their own errors, steps 4, 7 and 8 are in a try of their own
CaughtInPlace(i) == i \in {3, 4, 5, 6, 7, 8, 10}

afterFailure_Propagate(i) == IF CaughtInPlace(i) THEN "next" ELSE "threw"

\* where control goes after step i has failed: on to the next step, or to
\* the catch of waitForPageLoad (944-949), which logs and returns
afterFailure(i) == IF CaughtInPlace(i) THEN "next" ELSE "returned"

\* the handler calls waitForPageLoad(page) after page.goto (1238)
DetectorStart ==
  /\ dpc = "idle"
  /\ dpc' = "stage"
  /\ stage' = 1
  /\ outcomes' = <<>>
  /\ UNCHANGED <<poolVars, lifeVars, queueVars, taskVars, svcVars, createVars, result,
                 lazyVars, closeVars, stabVars, memVars, keyVars>>

\* control after step `stage` is over without an exception in flight
StageDone ==
  IF stage = 10 THEN dpc' = "returned" /\ stage' = stage
  ELSE dpc' = "stage" /\ stage' = stage + 1

\* the awaited step ends well
StageOk ==
  /\ dpc = "stage"
  /\ outcomes' = Append(outcomes, "ok")
  /\ StageDone
  /\ UNCHANGED <<poolVars, lifeVars, queueVars, taskVars, svcVars, createVars, result,
                 lazyVars, closeVars, stabVars, memVars, keyVars>>

\* the awaited step throws or times out
StageFails ==
  /\ dpc = "stage"
  /\ CanFail(stage)
  /\ outcomes' = Append(outcomes, "failed")
  /\ IF afterFailure(stage) = "next" THEN StageDone
     ELSE dpc' = afterFailure(stage) /\ stage' = stage
  /\ UNCHANGED <<poolVars, lifeVars, queueVars, taskVars, svcVars, createVars, result,
                 lazyVars, closeVars, stabVars, memVars, keyVars>>

\* waitForPageLoad has returned: the handler goes on to page.screenshot
\* (1240-1310; what lies between catches its own errors)
Capture ==
  /\ dpc = "returned"
  /\ dpc' = "captured"
  /\ UNCHANGED <<stage, outcomes, poolVars, lifeVars, queueVars, taskVars, svcVars,
                 createVars, result, lazyVars, closeVars, stabVars, memVars, keyVars>>

ReadyNext ==
  \/ DetectorStart
  \/ StageOk
  \/ StageFails
  \/ Capture

\* every step that is awaited settles: each has a timeout of its own or
\* rests on the protocol timeout of page.evaluate
ReadySpec == Init /\ [][ReadyNext]_vars /\ WF_vars(ReadyNext)

(***************************************************************************)
(* triggerLazyLoading (985-1006): the script it evaluates in the page.     *)
(* Heights are in units of 108 px, times in units of 100 ms.               *)
(***************************************************************************)
\* the heights of the page, and of the viewport the handler sets (1199-1202,
\* 1080 px unless the request names another): 540 px and 1080 px
PageHeights == 0 .. MaxPageHeight
ViewportHeights == {5, 10}

\* the pause after each scroll step (996) and after the scroll back (1001)
scrollPause == 8
topPause == 10

\* scrollStep = viewportHeight * 0.8 (991)
scrollStep(vh) == (vh * 4) \div 5

\* the condition of the while loop (993)
moreToScroll(pos, sh, vh) == pos < sh - vh

\* the time the script sleeps from position pos on: the loop and the scroll back
RECURSIVE lazyLoadDuration(_, _, _)
lazyLoadDuration(pos, sh, vh) ==
  IF moreToScroll(pos, sh, vh)
  THEN scrollPause + lazyLoadDuration(pos + scrollStep(vh), sh, vh)
  ELSE topPause

\* page.evaluate starts the script on a page of height sh in a viewport of
\* height vh (986-991)
LazyStart(sh, vh) ==
  /\ lpc = "idle"
  /\ lpc' = "scrolling"
  /\ scrollHeight' = sh
  /\ viewportHeight' = vh
  /\ currentPosition' = 0
  /\ lazyElapsed' = 0
  /\ UNCHANGED <<poolVars, lifeVars, queueVars, taskVars, svcVars, createVars, result,
                 readyVars, closeVars, stabVars, memVars, keyVars>>

\* one pass of the while loop (993-997)
ScrollStep ==
  /\ lpc = "scrolling"
  /\ moreToScroll(currentPosition, scrollHeight, viewportHeight)
  /\ currentPosition' = currentPosition + scrollStep(viewportHeight)
  /\ lazyElapsed' = lazyElapsed + scrollPause
  /\ UNCHANGED <<lpc, scrollHeight, viewportHeight, poolVars, lifeVars, queueVars, taskVars,
                 svcVars, createVars, result, readyVars, closeVars, stabVars, memVars,
                 keyVars>>

\* the loop is over: scroll back to the top and the last pause (1000-1001)
ScrollBack ==
  /\ lpc = "scrolling"
  /\ ~moreToScroll(currentPosition, scrollHeight, viewportHeight)
  /\ lpc' = "done"
  /\ lazyElapsed' = lazyElapsed + topPause
  /\ UNCHANGED <<scrollHeight, viewportHeight, currentPosition, poolVars, lifeVars,
                 queueVars, taskVars, svcVars, createVars, result, readyVars, closeVars,
                 stabVars, memVars, keyVars>>

LazyNext ==
  \/ \E sh \in PageHeights, vh \in ViewportHeights : LazyStart(sh, vh)
  \/ ScrollStep
  \/ ScrollBack

LazySpec == Init /\ [][LazyNext]_vars

(***************************************************************************)
(* waitForContentStability (954-982): the loop that samples the length of  *)
(* document.body.innerHTML.                                                *)
(***************************************************************************)
\* maxChecks (957) and the stableCount at which the loop breaks (967)
maxChecks == 8
stableNeeded == 3

\* the values page.evaluate returns: 0 when there is no body
Samples == 0 .. MaxSample

\* stableCount after a pass that sampled v (965-973)
countAfter(prev, count, v) == IF v = prev /\ v > 0 THEN count + 1 ELSE 0

\* waitForContentStability is called (955-958)
StabilityStart ==
  /\ spc = "idle"
  /\ spc' = "sampling"
  /\ previousContent' = NoSample
  /\ stableCount' = 0
  /\ checks' = 0
  /\ samples' = <<>>
  /\ UNCHANGED <<poolVars, lifeVars, queueVars, taskVars, svcVars, createVars, result,
                 readyVars, lazyVars, closeVars, memVars, keyVars>>

\* one pass of the loop (960-976): page.evaluate returns v; the loop breaks
\* at the third count, and ends after maxChecks passes
Sample(v) ==
  /\ spc = "sampling"
  /\ checks < maxChecks
  /\ samples' = Append(samples, v)
  /\ checks' = checks + 1
  /\ stableCount' = countAfter(previousContent, stableCount, v)
  /\ IF countAfter(previousContent, stableCount, v) >= stableNeeded
     THEN spc' = "stable" /\ previousContent' = previousContent
     ELSE /\ previousContent' = v
          /\ spc' = IF checks + 1 < maxChecks THEN "sampling" ELSE "gaveup"
  /\ UNCHANGED <<poolVars, lifeVars, queueVars, taskVars, svcVars, createVars, result,
                 readyVars, lazyVars, closeVars, memVars, keyVars>>

\* page.evaluate throws: the catch logs, and the function returns (977-979)
SampleThrows ==
  /\ spc = "sampling"
  /\ spc' = "gaveup"
  /\ UNCHANGED <<previousContent, stableCount, checks, samples, poolVars, lifeVars,
                 queueVars, taskVars, svcVars, createVars, result, readyVars, lazyVars,
                 closeVars, memVars, keyVars>>

StabilityNext ==
  \/ StabilityStart
  \/ \E v \in Samples : Sample(v)
  \/ SampleThrows

StabilitySpec == Init /\ [][StabilityNext]_vars

(***************************************************************************)
(* MemoryMonitor (809-830) as GET /screenshot calls it (1152-1155).  One   *)
(* clock tick is 15 s.                                                     *)
(***************************************************************************)
\* the 30000 ms of shouldGC (821), in clock ticks
GC_INTERVAL == 2

\* shouldGC() at time t (815-822)
shouldGC(high, t, last) == high /\ t - last > GC_INTERVAL

\* this.lastGC after forceGC() at time t (824-830): the time is recorded
\* only when global.gc is there
forceGC(hint, t, last) == IF hint THEN t ELSE last

\* the process starts, with or without --expose-gc; the MemoryMonitor is
\* constructed (811-813)
ProcessStarts(hint) ==
  /\ mpc = "down"
  /\ mpc' = "up"
  /\ gcAvailable' = hint
  /\ lastGC' = now
  /\ UNCHANGED <<heapHigh, forced, poolVars, lifeVars, queueVars, taskVars, svcVars,
                 createVars, result, readyVars, lazyVars, closeVars, stabVars, keyVars>>

\* the heap grows beyond the threshold, or shrinks below it
HeapChanges ==
  /\ mpc = "up"
  /\ heapHigh' = ~heapHigh
  /\ UNCHANGED <<mpc, gcAvailable, lastGC, forced, poolVars, lifeVars, queueVars, taskVars,
                 svcVars, createVars, result, readyVars, lazyVars, closeVars, stabVars,
                 keyVars>>

\* a request arrives: `if (memoryMonitor.shouldGC()) memoryMonitor.forceGC()`
MemoryCheck ==
  /\ mpc = "up"
  /\ Len(forced) < MaxForced
  /\ IF shouldGC(heapHigh, now, lastGC)
     THEN /\ forced' = Append(forced, now)
          /\ lastGC' = forceGC(gcAvailable, now, lastGC)
     ELSE UNCHANGED <<forced, lastGC>>
  /\ UNCHANGED <<mpc, gcAvailable, heapHigh, poolVars, lifeVars, queueVars, taskVars,
                 svcVars, createVars, result, readyVars, lazyVars, closeVars, stabVars,
                 keyVars>>

\* the clock advances by one tick
MemoryTick ==
  /\ mpc = "up"
  /\ now < MaxMemTime
  /\ now' = now + 1
  /\ UNCHANGED <<listening, lastActivity, idleTimeout, cache, rkey, lastEvent, sent,
                 poolVars, lifeVars, queueVars, taskVars, createVars, result, readyVars,
                 lazyVars, closeVars, stabVars, memVars, keyVars>>

MemoryNext ==
  \/ \E hint \in BOOLEAN : ProcessStarts(hint)
  \/ HeapChanges
  \/ MemoryCheck
  \/ MemoryTick

MemorySpec == Init /\ [][MemoryNext]_vars

(***************************************************************************)
(* The cache key of GET /screenshot (1162-1170) and the parameters the     *)
(* request is rendered with (1199-1202, 1299-1310).  The key is the md5 of *)
(* a string; the string is what is modelled, as a sequence of characters.  *)
(***************************************************************************)
Strings(chars, n) == UNION {[1 .. m -> chars] : m \in 0 .. n}

FalseString == <<"f", "a", "l", "s", "e">>

\* the query parameters of the requests that are followed
Queries ==
  [url : {<<"a">>, <<"a", "_", "1">>},
   width : Strings({"1", "_"}, MaxParamLen),
   height : {<<>>, <<"2">>},
   fullPage : {<<>>, FalseString},
   type : {<<>>, <<"j", "p", "e", "g">>}]

\* `v || dflt` of a parameter v, in a template string or not
orDefault(v, dflt) == IF v = <<>> THEN dflt ELSE v

\* a boolean in a template string
boolString(b) == IF b THEN <<"t", "r", "u", "e">> ELSE FalseString

\* the string that is hashed (1166-1168)
cacheKeyString(q) ==
  q.url \o <<"_">> \o orDefault(q.width, <<"1", "9", "2", "0">>)
        \o <<"_">> \o orDefault(q.height, <<"1", "0", "8", "0">>)
        \o <<"_">> \o boolString(q.fullPage # FalseString)
        \o <<"_">> \o orDefault(q.type, <<"p", "n", "g">>)

\* the digit that the character c writes, -1 when it writes none
DigitOf(c) ==
  CASE c = "0" -> 0 [] c = "1" -> 1 [] c = "2" -> 2 [] c = "8" -> 8 [] c = "9" -> 9
    [] OTHER -> -1

RECURSIVE parseDigits(_, _)
parseDigits(s, acc) ==
  IF s = <<>> \/ DigitOf(Head(s)) < 0 THEN acc
  ELSE parseDigits(Tail(s), acc * 10 + DigitOf(Head(s)))

\* `parseInt(v) || dflt`: the number that the leading digits of v write,
\* dflt when there is none (NaN) or when it is 0
parseIntOr(v, dflt) ==
  IF v = <<>> \/ DigitOf(Head(v)) < 0 \/ parseDigits(v, 0) = 0 THEN dflt
  ELSE parseDigits(v, 0)

\* what the request is rendered with: page.goto(url), setViewport
\* (1199-1202) and the options of page.screenshot (1299-1310)
renderParams(q) ==
  [url |-> q.url,
   width |-> parseIntOr(q.width, 1920),
   height |-> parseIntOr(q.height, 1080),
   fullPage |-> q.fullPage # FalseString,
   type |-> orDefault(q.type, <<"p", "n", "g">>)]

\* a first request arrives: its key is computed, it is rendered and its
\* image is stored under the key
FirstRequest(q) ==
  /\ kpc = "none"
  /\ kpc' = "one"
  /\ reqA' = q
  /\ keyA' = cacheKeyString(q)
  /\ UNCHANGED <<reqB, keyB, poolVars, lifeVars, queueVars, taskVars, svcVars, createVars,
                 result, readyVars, lazyVars, closeVars, stabVars, memVars>>

\* a second request arrives, and its key is computed
SecondRequest(q) ==
  /\ kpc = "one"
  /\ kpc' = "two"
  /\ reqB' = q
  /\ keyB' = cacheKeyString(q)
  /\ UNCHANGED <<reqA, keyA, poolVars, lifeVars, queueVars, taskVars, svcVars, createVars,
                 result, readyVars, lazyVars, closeVars, stabVars, memVars>>

KeyNext ==
  \/ \E q \in Queries : FirstRequest(q)
  \/ \E q \in Queries : SecondRequest(q)

KeySpec == Init /\ [][KeyNext]_vars

(***************************************************************************)
(* The service: GET /screenshot over the cache, the queue and the pool,    *)
(* with the idle cleanup timer.  A request is a caller of the pool and a   *)
(* task of the queue under one id; requests arrive in the order of their   *)
(* ids.  One step is one run of the event loop to its next await.          *)
(***************************************************************************)
\* no continuation of a rejected acquire or of a failed validation is
\* pending: such continuations are microtasks, and run before any timer,
\* request or browser event
Quiet == \A k \in Calls : pc[k] # "failed"

\* scheduleCleanup() at time t: the timer it leaves in idleTimeout
scheduleCleanup(t) == t + IDLE_TIMEOUT

\* cancelCleanup(): clearTimeout, idleTimeout = null
cancelCleanup == NoTimer

\* the handler of request k, from its start to its first await (1185-1193):
\* `new URL(url)` throws on an invalid url, else acquireBrowser() is called
startHandler(S, k, valid) ==
  IF valid THEN acquireBrowser(S, k, 0) ELSE Reject(S, k, "badurl")

\* the handler that processQueue called, if it called one, has started
dispatch(S, Q, valid) ==
  IF Q.started = NoTask THEN S ELSE startHandler(S, Q.started, valid)

\* a response of the server to request k
Response(k, status, xcache, key, body) ==
  [req |-> k, status |-> status, xcache |-> xcache, key |-> key, body |-> body]

\* the response of the catch of the handler (1330-1344) to an error
ErrorStatus(why) ==
  IF why = "badurl" THEN 400 ELSE IF why = "pagetimeout" THEN 408 ELSE 500

\* initializeServices() has returned (1550-1577): listen, scheduleCleanup()
Listen ==
  /\ Initialized
  /\ ~listening
  /\ listening' = TRUE
  /\ idleTimeout' = scheduleCleanup(now)
  /\ UNCHANGED <<poolVars, lifeVars, queueVars, taskVars, createVars, result, readyVars,
                 lazyVars, closeVars, now, lastActivity, cache, rkey, lastEvent, sent,
                 stabVars, memVars, keyVars>>

\* GET /screenshot arrives (1148-1184): lastActivity, the url check, the
\* cache lookup and, on a miss, addRequest with all that it runs
Arrive(k) ==
  /\ listening
  /\ Quiet
  /\ k <= MaxRequests
  /\ pc[k] = "idle"
  /\ \A j \in Calls : j < k => pc[j] # "idle"
  /\ lastActivity' = now
  /\ lastEvent' = now
  /\ \/ \* no url parameter: 400
        /\ pc' = [pc EXCEPT ![k] = "done"]
        /\ sent' = Response(k, 400, "none", "none", 0)
        /\ UNCHANGED <<browsers, availableBrowsers, waitingQueue, isShuttingDown,
                       connected, nextBrowser, held, err, retry, timer, via, okAt,
                       queueVars, cache, rkey>>
     \/ \E key \in Keys :
          LET got == cacheGet(cache, key, now)
          IN /\ cache' = got.cache
             /\ IF got.value # 0
                THEN \* served from the cache
                     /\ pc' = [pc EXCEPT ![k] = "done"]
                     /\ sent' = Response(k, 200, "HIT", key, got.value)
                     /\ UNCHANGED <<browsers, availableBrowsers, waitingQueue,
                                    isShuttingDown, connected, nextBrowser, held,
                                    err, retry, timer, via, okAt, queueVars, rkey>>
                ELSE LET Q == addRequest(QCur, k)
                     IN /\ rkey' = [rkey EXCEPT ![k] = key]
                        /\ sent' = sent
                        /\ SetQueue(Q)
                        /\ \E valid \in BOOLEAN :
                             SetPool(dispatch([Cur EXCEPT !.pc[k] = "queued"],
                                              Q, valid))
  /\ UNCHANGED <<lifeVars, taskVars, createVars, result, readyVars, lazyVars, closeVars,
                 listening, now, idleTimeout, stabVars, memVars, keyVars>>

\* the end of the handler of request k (1355-1362), with the pool as S after
\* its catch and its release and the last response as it is then, and the
\* rest of processQueue (750-756)
EndOfHandler(k, S, response) ==
  /\ sent' = response
  /\ idleTimeout' = scheduleCleanup(now)
  /\ lastEvent' = now
  /\ LET Q == handlerSettled(QCur)
     IN /\ SetQueue(Q)
        /\ \E valid \in BOOLEAN :
             SetPool(dispatch([S EXCEPT !.pc[k] = "done", !.err[k] = "none"],
                              Q, valid))
  /\ rkey' = [rkey EXCEPT ![k] = "k1"]
  /\ UNCHANGED <<lifeVars, taskVars, createVars, result, readyVars, lazyVars, closeVars,
                 listening, now, lastActivity, stabVars, memVars, keyVars>>

\* the pool with the browser of request k handed back (1356)
Released(k) ==
  releaseBrowser([Cur EXCEPT !.held[k] = NoBrowser, !.via[k] = "none",
                             !.okAt[k] = FALSE],
                 held[k])

afterScreenshot_StoreAnyway(c, key, buffer, t, produced) == cacheSet(c, key, buffer, t)

\* the cache after the try block of the handler (1196-1317): cache.set runs
\* only when every await before it, page.screenshot the last, has returned
afterScreenshot(c, key, buffer, t, produced) ==
  IF produced THEN cacheSet(c, key, buffer, t) ELSE c

\* the render of request k succeeds (1196-1326): cache.set, the response,
\* and the finally up to `await page.close()`
RenderSucceeds(k) ==
  /\ listening
  /\ Quiet
  /\ pc[k] = "holding"
  /\ connected[held[k]]
  /\ pc' = [pc EXCEPT ![k] = "cleanup"]
  /\ cache' = afterScreenshot(cache, rkey[k], k, now, TRUE)
  /\ sent' = Response(k, 200, "MISS", rkey[k], k)
  /\ UNCHANGED <<browsers, availableBrowsers, waitingQueue, isShuttingDown, connected,
                 nextBrowser, held, err, retry, timer, via, okAt, lifeVars, queueVars,
                 taskVars, createVars, result, readyVars, lazyVars, closeVars, listening,
                 now, lastActivity, idleTimeout, rkey, lastEvent, stabVars, memVars,
                 keyVars>>

\* the render of request k throws after its page was opened (1198-1344): a
\* TimeoutError, a protocol error of the browser (its target closed or
\* crashed), or any other error
RenderFails(k) ==
  /\ listening
  /\ Quiet
  /\ pc[k] = "holding"
  /\ pc' = [pc EXCEPT ![k] = "cleanup"]
  /\ \E why \in {"pagetimeout", "protocol", "render"} :
       /\ err' = [err EXCEPT ![k] = why]
       /\ sent' = Response(k, ErrorStatus(why), "none", "none", 0)
  /\ cache' = afterScreenshot(cache, rkey[k], 0, now, FALSE)
  /\ UNCHANGED <<browsers, availableBrowsers, waitingQueue, isShuttingDown, connected,
                 nextBrowser, held, retry, timer, via, okAt, lifeVars, queueVars, taskVars,
                 createVars, result, readyVars, lazyVars, closeVars, listening, now,
                 lastActivity, idleTimeout, rkey, lastEvent, stabVars, memVars, keyVars>>

\* browser.newPage() of request k throws (1196): page is null, the finally
\* runs without an await
NewPageFails(k) ==
  /\ listening
  /\ Quiet
  /\ pc[k] = "holding"
  /\ EndOfHandler(k, Released(k), Response(k, ErrorStatus("render"), "none", "none", 0))
  /\ cache' = cache

\* `await page.close()` of the finally of request k is over (1349-1362)
PageClosed(k) ==
  /\ listening
  /\ Quiet
  /\ pc[k] = "cleanup"
  /\ EndOfHandler(k, Released(k), sent)
  /\ cache' = cache

\* the handler of request k after its url was found invalid or its acquire
\* was rejected (1327-1362): browser is null, nothing is released
AcquireRejected(k) ==
  /\ listening
  /\ pc[k] = "failed"
  /\ EndOfHandler(k, Cur, Response(k, ErrorStatus(err[k]), "none", "none", 0))
  /\ cache' = cache

IdleLongEnough_Always(t, last) == TRUE

\* the check of the cleanup timer's callback (1129) at time t
IdleLongEnough(t, last) == t - last >= IDLE_TIMEOUT

\* the callback of the cleanup timer (1128-1136)
IdleTimerFires ==
  /\ listening
  /\ Quiet
  /\ idleTimeout = now
  /\ idleTimeout' = NoTimer
  /\ IF IdleLongEnough(now, lastActivity)
     THEN LET S == shutdownBegin(Cur)
          IN IF closing \/ \E i \in 1 .. Len(S.browsers) : S.connected[S.browsers[i]]
             THEN SetPool(S) /\ closing' = TRUE /\ cache' = cache
             ELSE SetPool(shutdownEnd(S)) /\ closing' = FALSE /\ cache' = cacheClear
     ELSE UNCHANGED <<poolVars, closing, cache>>
  /\ UNCHANGED <<initI, queueVars, taskVars, createVars, result, readyVars, lazyVars,
                 closeVars, listening, now, lastActivity, rkey, lastEvent, sent, stabVars,
                 memVars, keyVars>>

\* `await browserPool.shutdown()` of the callback returns; cache.clear()
CleanupEnd ==
  /\ listening
  /\ Quiet
  /\ closing
  /\ SetPool(shutdownEnd(Cur))
  /\ closing' = FALSE
  /\ cache' = cacheClear
  /\ UNCHANGED <<initI, queueVars, taskVars, createVars, result, readyVars, lazyVars,
                 closeVars, listening, now, lastActivity, idleTimeout, rkey, lastEvent, sent,
                 stabVars, memVars, keyVars>>

\* a creation, a waiter's timeout or a disconnection, while the service runs
PoolEvent ==
  /\ listening
  /\ Quiet
  /\ \/ \E k \in Calls : CreateOk(k)
     \/ \E k \in Calls : CreateFail(k)
     \/ \E k \in Calls : WaiterTimeout(k)
     \/ \E b \in BrowserIds : Disconnect(b)

\* the clock advances by one tick: not past a timer that is due, and not
\* while browsers are being closed, which 10 s bound
Tick ==
  /\ listening
  /\ Quiet
  /\ ~closing
  /\ now < MaxTime
  /\ idleTimeout # now
  /\ now' = now + 1
  /\ UNCHANGED <<poolVars, lifeVars, queueVars, taskVars, createVars, result, readyVars,
                 lazyVars, closeVars, listening, lastActivity, idleTimeout, cache, rkey,
                 lastEvent, sent, stabVars, memVars, keyVars>>

Next ==
  \/ InitializeOk
  \/ InitializeFail
  \/ Listen
  \/ \E k \in Calls : Arrive(k)
  \/ \E k \in Calls : RenderSucceeds(k)
  \/ \E k \in Calls : RenderFails(k)
  \/ \E k \in Calls : NewPageFails(k)
  \/ \E k \in Calls : PageClosed(k)
  \/ \E k \in Calls : AcquireRejected(k)
  \/ PoolEvent
  \/ IdleTimerFires
  \/ CleanupEnd
  \/ Tick

Spec == Init /\ [][Next]_vars

(***************************************************************************)
(* GET /test-loading (1393-1459): a handler that takes a browser from the  *)
(* pool without going through the RequestQueue or the cache.               *)
(***************************************************************************)
\* the request arrives with a url (1394-1404): `new URL(url)` throws on an
\* invalid one, else acquireBrowser() is called
TestLoadingArrives(k) ==
  /\ Initialized
  /\ pc[k] = "idle"
  /\ \A j \in Calls : j < k => pc[j] # "idle"
  /\ \E valid \in BOOLEAN : SetPool(startHandler(Cur, k, valid))
  /\ UNCHANGED <<lifeVars, outsidePool>>

\* every await of the try block has returned (1405-1441): page.close(),
\* releaseBrowser(browser), the response
TestLoadingSucceeds(k) ==
  /\ pc[k] = "holding"
  /\ connected[held[k]]
  /\ SetPool([Released(k) EXCEPT !.pc[k] = "done"])
  /\ UNCHANGED <<lifeVars, outsidePool>>

\* newPage, setViewport, goto, its status check, page.evaluate or
\* page.close throws (1405-1440): the catch answers 500 (1450-1457)
TestLoadingFails(k) ==
  /\ pc[k] = "holding"
  /\ SetPool([Cur EXCEPT !.pc[k] = "done", !.err[k] = "render"])
  /\ UNCHANGED <<lifeVars, outsidePool>>

\* the url was invalid or acquireBrowser() was rejected: the catch answers 500
TestLoadingRejected(k) ==
  /\ pc[k] = "failed"
  /\ SetPool([Cur EXCEPT !.pc[k] = "done"])
  /\ UNCHANGED <<lifeVars, outsidePool>>

TestLoadingNext ==
  \/ InitializeOk
  \/ InitializeFail
  \/ \E k \in Calls : TestLoadingArrives(k)
  \/ \E k \in Calls : CreateOk(k)
  \/ \E k \in Calls : CreateFail(k)
  \/ \E k \in Calls : WaiterTimeout(k)
  \/ \E k \in Calls : TestLoadingSucceeds(k)
  \/ \E k \in Calls : TestLoadingFails(k)
  \/ \E k \in Calls : TestLoadingRejected(k)
  \/ \E b \in BrowserIds : Disconnect(b)

TestLoadingSpec == Init /\ [][TestLoadingNext]_vars

(***************************************************************************)
(* Properties of the pool.                                                 *)
(***************************************************************************)
\* the callers that hold browser b
Holders(b) == {k \in Calls : pc[k] \in {"holding", "cleanup"} /\ held[k] = b}
\* a parked caller has been settled: its promise is no longer pending
Settled(k) == pc[k] \in {"holding", "released", "failed"}

\* C1: in every reachable state the number of available instances is at most
\* the number of total instances, and total is at most poolSize.
C1_AvailableLeTotalLeCapacity ==
  /\ Len(availableBrowsers) <= Len(browsers)
  /\ Len(browsers) <= poolSize

\* C2: every instance counted in total is either in the available set (and
\* held by nobody) or held by exactly one caller (and not available), so that
\* available + in-use = total.
C2_TotalIsAvailablePlusInUse ==
  /\ \A b \in Range(browsers) :
       \/ b \in Range(availableBrowsers) /\ Holders(b) = {}
       \/ b \notin Range(availableBrowsers) /\ Cardinality(Holders(b)) = 1
  /\ Len(availableBrowsers)
       + Cardinality({k \in Calls : pc[k] = "holding" /\ held[k] \in Range(browsers)})
     = Len(browsers)

\* C3: the waiting queue only ever contains waiters whose callers are still
\* pending: the timeout that rejects a caller also takes its waiter out.
C3_QueueHoldsOnlyPendingWaiters ==
  \A i \in 1 .. Len(waitingQueue) : pc[waitingQueue[i].call] = "waiting"

\* C4: every caller parked as a waiter is eventually settled (by a hand-off,
\* by its timeout or by shutdown), and once settled its outcome never
\* changes: it is settled exactly once.
C4_WaiterSettledOnce ==
  /\ \A k \in Calls : (pc[k] = "waiting") ~> Settled(k)
  /\ [][\A k \in Calls :
          Settled(k) =>
            /\ Settled(k)'
            /\ err'[k] = err[k]
            /\ (pc[k] = "holding" /\ pc'[k] = "holding" => held'[k] = held[k])]_vars

\* C4 witness: a caller that was parked while the pool was at capacity has
\* been settled, here by the hand-off of a released browser.
C4_Witness ==
  \E j \in Calls :
    /\ pc[j] = "holding" /\ via[j] = "handoff"
    /\ ~timer[j]
    /\ \A i \in 1 .. Len(waitingQueue) : waitingQueue[i].call # j

\* C8: every instance delivered from stock (from availableBrowsers to an
\* acquire, or from a release to a parked waiter) was connected at the moment
\* of delivery.
C8_DeliveredFromStockHealthy ==
  \A k \in Calls :
    pc[k] = "holding" /\ via[k] \in {"available", "handoff"} => okAt[k]

\* C8 witness: a caller holds a browser that a release handed to it while it
\* was parked, after another browser of the pool was found disconnected and
\* removed.
C8_Witness ==
  /\ \E k \in Calls : pc[k] = "holding" /\ via[k] = "handoff"
  /\ \E b \in BrowserIds : b < nextBrowser /\ ~connected[b] /\ b \notin Range(browsers)

\* C9: no instance is at once available and held, and no instance is held by
\* two callers.
C9_NoDoubleUse ==
  /\ \A b \in BrowserIds : Cardinality(Holders(b)) <= 1
  /\ \A k \in Calls : pc[k] = "holding" => held[k] \notin Range(availableBrowsers)
  /\ \A i, j \in 1 .. Len(availableBrowsers) :
       i # j => availableBrowsers[i] # availableBrowsers[j]

\* C9 witness: a browser that one caller released is held by another caller
\* that took it from availableBrowsers.
C9_Witness ==
  \E k, j \in Calls :
    /\ pc[k] = "released"
    /\ pc[j] = "holding" /\ via[j] = "available"

(***************************************************************************)
(* Properties of the queue.                                                *)
(***************************************************************************)
\* the tasks whose handler is running
RunningTasks == {t \in Tasks : tstate[t] = "running"}
QueuedTasks == {t \in Tasks : tstate[t] = "queued"}
\* how often task t occurs in sequence q
Occurrences(q, t) == Cardinality({i \in 1 .. Len(q) : q[i] = t})

\* C5: the queue never has more than maxConcurrent handlers running, and
\* running never goes below 0, whatever is submitted, completes or fails.
C5_RunningWithinBounds ==
  /\ running >= 0
  /\ running <= maxConcurrent
  /\ Cardinality(RunningTasks) <= maxConcurrent

\* C5 witness: the queue is saturated with a task waiting, after a handler
\* has failed.
C5_Witness ==
  /\ running = maxConcurrent
  /\ Len(queue) > 0
  /\ \E t \in Tasks : tstate[t] = "rejected"

\* C6: handlers are called in the order of submission (tasks are submitted
\* in the order of their ids), each task's handler once, and from submission
\* until it settles a task is counted in exactly one of queue and running.
C6_FifoOnceAccounted ==
  /\ \A i \in 1 .. Len(dispatched) : dispatched[i] = i
  /\ \A t \in Tasks :
       /\ tstate[t] = "new" =>
            Occurrences(queue, t) = 0 /\ Occurrences(dispatched, t) = 0
       /\ tstate[t] = "queued" =>
            Occurrences(queue, t) = 1 /\ Occurrences(dispatched, t) = 0
       /\ tstate[t] \in {"running", "resolved", "rejected"} =>
            Occurrences(queue, t) = 0 /\ Occurrences(dispatched, t) = 1
  /\ running = Cardinality(RunningTasks)
  /\ Len(queue) = Cardinality(QueuedTasks)

\* C6 witness: every task has been dispatched, one of them after it had
\* waited in the queue behind another queued task.
C6_Witness ==
  /\ Len(dispatched) = MaxTasks
  /\ \E t \in Tasks : waited[t] > 0 /\ t < MaxTasks

\* C31: when the handler of a task ends, by throwing as by returning, the
\* promise of that task is settled accordingly, running is decremented once
\* and the task at the head of the queue, if there is one, is dispatched; no
\* other task changes, and a settled task stays as it is.
C31_SettleDecrementDispatch ==
  [][\A t \in Tasks :
       (tstate[t] = "running" /\ tstate'[t] # "running") =>
         /\ tstate'[t] \in {"resolved", "rejected"}
         /\ IF Len(queue) > 0
            THEN /\ queue' = Tail(queue)
                 /\ tstate'[Head(queue)] = "running"
                 /\ dispatched' = Append(dispatched, Head(queue))
                 /\ running' = (running - 1) + 1
            ELSE /\ queue' = queue
                 /\ dispatched' = dispatched
                 /\ running' = running - 1
         /\ \A u \in Tasks \ {t} :
              (Len(queue) = 0 \/ u # Head(queue)) => tstate'[u] = tstate[u]]_vars

\* C31 witness: the handler of the first task has thrown and that of the
\* second has returned; the two tasks that were queued behind them have been
\* dispatched, and run.
C31_Witness ==
  /\ tstate[1] = "rejected"
  /\ tstate[2] = "resolved"
  /\ tstate[3] = "running" /\ tstate[4] = "running"
  /\ waited[3] > 0
  /\ running = 2
  /\ queue = <<>>

\* C35: whenever a task is in the queue, maxConcurrent handlers are running;
\* hence, if every handler that runs ends, every task in the queue has its
\* handler called in the end.
C35_QueuedOnlyWhenFull ==
  /\ [](Len(queue) > 0 => running = maxConcurrent)
  /\ \A t \in Tasks : (tstate[t] = "queued") ~> (tstate[t] = "running")

\* C35 witness: the third task has waited in the queue and its handler was
\* called when one of the first two ended; the fourth is in the queue behind
\* two running handlers.
C35_Witness ==
  /\ tstate[3] = "running"
  /\ waited[3] > 0
  /\ tstate[4] = "queued"
  /\ queue = <<4>>
  /\ running = maxConcurrent

\* C7 as claimed: a task that is not admitted before its queuing deadline (of
\* MaxWait ticks here) is rejected and taken out of the queue, so that no
\* task is in the queue past its deadline.
C7_NoTaskQueuedPastDeadline ==
  \A t \in Tasks : t \in Range(queue) => waited[t] < MaxWait

\* C7 as amended: a submitted task has no deadline: from addRequest on, and
\* however long it has waited, it is in the queue with its promise pending
\* until processQueue calls its handler; nothing else takes it out.
C7_QueuedUntilDispatched ==
  [][\A t \in Tasks :
       tstate[t] \in {"new", "queued"} /\ tstate'[t] # "new" =>
         \/ t \in Range(queue') /\ tstate'[t] = "queued"
         \/ t \notin Range(queue') /\ tstate'[t] = "running"]_vars

\* C7 witness: the handler of a task is running after the task had waited in
\* the queue for as long as the model follows it.
C7_Witness ==
  \E t \in Tasks : tstate[t] = "running" /\ waited[t] = MaxWait

\* C12: shutdown() sets the flag; every acquire started while the flag is set
\* is rejected at once with the shutdown error; every waiter pending when
\* shutdown() is called is rejected with the shutdown error; and the waiting
\* queue is empty from then on.
C12_ShutdownRejectsAndEmpties ==
  [][/\ \A k \in Calls :
          (isShuttingDown /\ pc[k] = "idle" /\ pc'[k] # "idle")
            => (pc'[k] = "failed" /\ err'[k] = "shutdown")
     /\ (~isShuttingDown /\ isShuttingDown')
          => \A k \in Calls :
               pc[k] = "waiting" => (pc'[k] = "failed" /\ err'[k] = "shutdown")
     /\ isShuttingDown'
          => (waitingQueue' = <<>> /\ \A k \in Calls : pc'[k] # "waiting")
     /\ isShuttingDown => isShuttingDown']_vars

\* C12 witness: the pool is shut down while the first caller holds a browser;
\* the two other callers, one parked before shutdown() or both started after
\* it, have been rejected with the shutdown error, and the queue is empty.
C12_Witness ==
  /\ isShuttingDown
  /\ waitingQueue = <<>>
  /\ pc[1] = "holding"
  /\ \A k \in Calls \ {1} : pc[k] = "failed" /\ err[k] = "shutdown"

\* C16: when a released browser fails the health check, it leaves browsers
\* and availableBrowsers, no caller is given it, and no browser is created
\* in its place; the acquire that follows, finding nothing available, takes
\* the creation path; and no acquire ever returns a browser that is not
\* connected, such as the evicted one.
C16_EvictedNotReplacedNorReused ==
  [][/\ \A k \in Calls :
          (/\ pc[k] = "holding" /\ pc'[k] = "released"
           /\ ~isShuttingDown /\ ~connected[held[k]])
            => /\ held[k] \notin Range(browsers')
               /\ held[k] \notin Range(availableBrowsers')
               /\ \A j \in Calls : held'[j] # held[k]
               /\ nextBrowser' = nextBrowser
               /\ Len(availableBrowsers') = 0 => Len(browsers') < poolSize
     /\ \A j \in Calls :
          (pc[j] # "holding" /\ pc'[j] = "holding") => connected'[held'[j]]]_vars

\* the positions in waitingQueue of the callers that are still parked
PendingAt == {i \in 1 .. Len(waitingQueue) : pc[waitingQueue[i].call] = "waiting"}
\* the caller that has been parked the longest
OldestPending == waitingQueue[CHOOSE i \in PendingAt : \A j \in PendingAt : i <= j].call

\* C23: a release of a connected browser while the pool is not shutting down
\* hands it to the caller that has been parked the longest, and not to
\* availableBrowsers, if a caller is parked, and appends it to
\* availableBrowsers if none is; a release while the pool is shutting down
\* closes the browser and takes it out of the pool, and gives it to nobody.
C23_ReleaseHandsOverOrStocks ==
  [][\A k \in Calls :
       (pc[k] = "holding" /\ pc'[k] = "released") =>
         IF isShuttingDown
         THEN /\ held[k] \notin Range(browsers')
              /\ held[k] \notin Range(availableBrowsers')
              /\ ~connected'[held[k]]
              /\ \A j \in Calls : held'[j] # held[k]
         ELSE connected[held[k]] =>
                IF PendingAt # {}
                THEN /\ pc'[OldestPending] = "holding"
                     /\ held'[OldestPending] = held[k]
                     /\ availableBrowsers' = availableBrowsers
                ELSE availableBrowsers' = Append(availableBrowsers, held[k])]_vars

\* C36: a caller is parked only while the pool is at capacity: whenever
\* browsers holds fewer than poolSize browsers, as after a released browser
\* was found disconnected and removed, no caller is parked, and no acquire
\* called later starts to create a browser while a caller is parked.
C36_ParkedOnlyAtCapacity ==
  /\ []((~isShuttingDown /\ Len(browsers) < poolSize) => PendingAt = {})
  /\ [][\A k \in Calls :
          (pc[k] = "idle" /\ pc'[k] = "creating") => PendingAt = {}]_vars

\* C39: once shutdown() has returned, browsers and availableBrowsers are
\* empty and stay empty, and no caller is given a browser any more, not even
\* one whose acquire was creating a browser when shutdown() was called.
C39_EmptyAfterShutdown ==
  /\ []((isShuttingDown /\ ~closing)
          => (Len(browsers) = 0 /\ Len(availableBrowsers) = 0))
  /\ [][(isShuttingDown /\ ~closing) =>
          \A k \in Calls : pc[k] # "holding" => pc'[k] # "holding"]_vars

\* C29: a call of shutdown() completes, even when the close of a browser
\* never returns or throws: every close is given up after its timeout, and
\* no failure of a close makes shutdown() throw.
C29_ShutdownCompletes ==
  /\ [](shutdownOutcome # "threw")
  /\ closing ~> (shutdownOutcome = "completed" /\ Len(browsers) = 0)

\* C29 witness: shutdown() has completed with two browsers to close, the
\* close of one of which threw while that of another never returned and was
\* given up at its timeout.
C29_Witness ==
  /\ shutdownOutcome = "completed"
  /\ \E b \in BrowserIds : closes[b] = "threw"
  /\ \E b \in BrowserIds : closes[b] = "timeout"

\* a createBrowser() awaited by the acquire of caller k throws in this step
CreationFails(k) ==
  /\ pc[k] = "creating"
  /\ pc'[k] # "creating" \/ retry'[k] # retry[k]
  /\ nextBrowser' = nextBrowser

C13_TerminalAfterFourAttempts ==
  \A k \in Calls :
    (pc[k] = "failed" /\ err[k] = "creation")
      => (launches[k] <= 4 /\ slept[k] = <<2, 4, 8>>)

\* C13, amended: a caller whose acquire ended with the terminal creation
\* error has seen 3 calls of createBrowser, 3 s apart, each of an initial
\* attempt plus 3 retries after 2 s, 4 s and 8 s: 12 creation attempts.
C13_TerminalAfterThreeCreateCalls ==
  \A k \in Calls :
    (pc[k] = "failed" /\ err[k] = "creation")
      => (launches[k] = 12 /\ slept[k] = <<2, 4, 8, 3, 2, 4, 8, 3, 2, 4, 8>>)

\* C13 witness: an acquire has ended with the terminal creation error.
C13_Witness == \E k \in Calls : pc[k] = "failed" /\ err[k] = "creation"

\* C14: a caller whose creation failed twice and succeeded at the third
\* attempt holds that browser, which is in browsers, and has slept 2 s and
\* then 4 s; in general the delay before retry r (r = 1, 2, 3) of a call of
\* createBrowser is 2 s * 2^(r-1).
C14_BackoffThenSuccess ==
  \A k \in Calls :
    /\ (pc[k] = "holding" /\ via[k] = "created" /\ launches[k] = 3)
         => (slept[k] = <<2, 4>> /\ held[k] \in Range(browsers))
    /\ \A i \in 1 .. Len(slept[k]) :
         i % 4 # 0 => slept[k][i] = 2 * 2 ^ ((i % 4) - 1)

\* C14 witness: a caller holds the browser that its third creation attempt
\* produced.
C14_Witness ==
  \E k \in Calls : pc[k] = "holding" /\ via[k] = "created" /\ launches[k] = 3

(***************************************************************************)
(* Properties of the cache.                                                *)
(***************************************************************************)
\* the keys whose entry is there and has not expired
LiveKeys(c, t) == {key \in Keys : c[key] # NoEntry /\ ~(t > c[key].expiresAt)}

\* C17: get(key) returns no value whose expiresAt is earlier than the current
\* time; finding such an entry it returns nothing and removes the entry, so
\* that a size() that follows does not count it; and size() removes every
\* expired entry and counts the others.
C17_ExpiredNeverReturned ==
  [][now' = now =>
      /\ \A key \in Keys :
           (result'.op = "get" /\ result'.key = key) =>
             /\ result'.value # 0 =>
                  (~(cache[key].expiresAt < now) /\ result'.value = cache[key].value)
             /\ (cache[key] # NoEntry /\ cache[key].expiresAt < now) =>
                  /\ result'.value = 0
                  /\ cache'[key] = NoEntry
                  /\ cacheSize(cache', now).count = Cardinality(LiveKeys(cache, now))
      /\ result'.op = "size" =>
           /\ result'.value = Cardinality(LiveKeys(cache, now))
           /\ \A key \in Keys :
                cache'[key] = IF key \in LiveKeys(cache, now) THEN cache[key]
                              ELSE NoEntry]_vars

\* C17 witness: a get has found an entry of its key, expired, and has returned
\* nothing and removed it, while the other key has a live entry.
C17_Witness ==
  /\ result.op = "get"
  /\ result.found
  /\ result.value = 0
  /\ cache[result.key] = NoEntry
  /\ Cardinality(LiveKeys(cache, now)) = 1

\* C18: set(key, value) replaces the entry of key by value with expiry
\* now + ttl and leaves the entries of the other keys as they are, whatever
\* key held before; a get(key) that follows it before the ttl has elapsed
\* returns exactly value.
C18_SetThenGet ==
  [][now' = now =>
      /\ \A key \in Keys :
           (result'.op = "set" /\ result'.key = key) =>
             /\ cache'[key] = [value |-> result'.value, expiresAt |-> now + CACHE_TTL]
             /\ \A other \in Keys \ {key} : cache'[other] = cache[other]
             /\ \A d \in 0 .. CACHE_TTL :
                  cacheGet(cache', key, now + d).value = result'.value
      /\ (/\ result.op = "set" /\ result'.op = "get" /\ result'.key = result.key
          /\ ~(now > cache[result.key].expiresAt))
           => result'.value = result.value]_vars

\* C18 witness: a set has replaced a live entry of its key, time has passed
\* to the last moment of the new entry, and a get has returned its value.
C18_Witness ==
  /\ result.op = "get"
  /\ result.value = 2
  /\ cache[result.key] = [value |-> 2, expiresAt |-> now]
  /\ now > CACHE_TTL

(***************************************************************************)
(* Properties of waitForPageLoad.                                          *)
(***************************************************************************)
\* C20: waitForPageLoad always returns to its caller: whichever step fails
\* or times out, no exception leaves it, and page.screenshot is called after
\* it.
C20_DetectorReturnsThenCapture ==
  /\ [](dpc # "threw")
  /\ (dpc = "stage") ~> (dpc = "captured")

\* C20 witness: page.screenshot has been called after a waitForPageLoad whose
\* first step ended well, whose second step failed, and which went no
\* further.
C20_Witness ==
  /\ dpc = "captured"
  /\ outcomes = <<"ok", "failed">>

\* C25: the steps of waitForPageLoad are entered one after the other in
\* their fixed order, each when the one before it has ended, well or not: a
\* step that fails or times out never causes a later step to be skipped, so
\* that waitForPageLoad returns only after all of its steps were entered.
C25_EveryStageEntered ==
  /\ dpc = "stage" => Len(outcomes) = stage - 1
  /\ dpc \in {"returned", "captured"} => Len(outcomes) = Cardinality(Stages)

\* the last n samples are there, are the same, and are not zero
LastSame(n) ==
  /\ Len(samples) >= n
  /\ samples[Len(samples)] > 0
  /\ \A i \in (Len(samples) - n + 1) .. Len(samples) : samples[i] = samples[Len(samples)]

\* C32: waitForContentStability declares the content stable as soon as 3
\* consecutive samples are identical and not zero, and gives up after
\* maxChecks samples otherwise; a zero or a changed sample restarts the count.
C32_StableAfterThreeSamples ==
  /\ LastSame(3) => spc = "stable"
  /\ spc = "stable" => LastSame(3)
  /\ (spc = "gaveup" /\ Len(samples) = checks) => checks <= maxChecks
  /\ (spc = "sampling" /\ Len(samples) > 0 /\ ~LastSame(2)) => stableCount = 0

(***************************************************************************)
(* Properties of the MemoryMonitor.                                        *)
(***************************************************************************)
\* C33: forceGC() is called only when the heap is above the threshold and 30 s
\* have passed since it was last called, so that any two calls of it are at
\* least 30 s apart, whether global.gc is there or not.
C33_ForcedAtMostOncePerInterval ==
  \A i, j \in 1 .. Len(forced) : i < j => forced[j] - forced[i] >= GC_INTERVAL

\* C21: the time triggerLazyLoading spends is fixed: it is the same for every
\* page height and every viewport height, so that the time spent in
\* waitForPageLoad is bounded by its timeouts and fixed delays for every page.
C21_LazyLoadTakesFixedTime ==
  lpc = "done" =>
    \A sh \in PageHeights, vh \in ViewportHeights :
      lazyElapsed = lazyLoadDuration(0, sh, vh)

(***************************************************************************)
(* Properties of the service.                                              *)
(***************************************************************************)
\* C10: whenever no request has arrived and no handler has completed for
\* longer than IDLE_TIMEOUT, the cleanup timer has shut the pool down and the
\* pool holds no browser, whatever requests came before the idle period.
C10_IdleServiceIsShutDown ==
  (listening /\ now - lastEvent > IDLE_TIMEOUT)
    => (isShuttingDown /\ Len(browsers) = 0)

\* C11: if requests keep arriving at intervals of at most IDLE_TIMEOUT / 2,
\* so that at every moment the last arrival is at most IDLE_TIMEOUT / 2 ago,
\* the cleanup timer never shuts the pool down.
C11_SteadyArrivalsNeverReaped ==
  \/ <>(listening /\ (now - lastActivity) + (now - lastActivity) > IDLE_TIMEOUT)
  \/ [](~isShuttingDown)

\* C11 witness: a request arrived IDLE_TIMEOUT / 2 after startup, the cleanup
\* timer armed at startup has fired IDLE_TIMEOUT / 2 after that, and the pool
\* is not shut down.
C11_Witness ==
  /\ listening
  /\ now = IDLE_TIMEOUT
  /\ lastActivity + lastActivity = IDLE_TIMEOUT
  /\ idleTimeout = NoTimer
  /\ \E k \in Calls : pc[k] = "done"
  /\ ~isShuttingDown

\* C15: with poolSize = 1, two requests for different urls never hold a
\* browser at the same time: the second one's acquire returns only after the
\* first one has released.
C15_OneHolderAtCapacityOne ==
  poolSize = 1 =>
    \A j, k \in Calls :
      (j # k /\ rkey[j] # rkey[k])
        => ~(pc[j] \in {"holding", "cleanup"} /\ pc[k] \in {"holding", "cleanup"})

\* request k arrives in this step, asking for key: it is answered at once
\* under that key, or it goes on to the queue with that key
ArrivesWith(k, key) ==
  /\ pc[k] = "idle"
  /\ pc'[k] # "idle"
  /\ \/ pc'[k] = "done" /\ sent'.req = k /\ sent'.key = key
     \/ pc'[k] # "done" /\ rkey'[k] = key

\* C19: a request whose key has a live cache entry is answered with the
\* cached value and the header X-Cache: HIT; it does not enter the queue,
\* acquires no browser, and leaves the pool, the queue and every other
\* request as they are.
C19_CacheHitTouchesNothing ==
  [][\A k \in Calls, key \in Keys :
       (ArrivesWith(k, key) /\ key \in LiveKeys(cache, now))
         => /\ sent' = Response(k, 200, "HIT", key, cache[key].value)
            /\ pc'[k] = "done"
            /\ \A j \in Calls \ {k} : pc'[j] = pc[j]
            /\ UNCHANGED <<browsers, availableBrowsers, waitingQueue,
                           isShuttingDown, connected, nextBrowser, held,
                           running, queue, cache>>]_vars

\* C19 witness: the second request has been answered from the cache with
\* what the first request rendered.
C19_Witness ==
  sent = Response(2, 200, "HIT", sent.key, 1)

\* C22: a request that ends in an error response stores nothing in the cache;
\* the cache gets an entry for a key only in the step in which the render of
\* a request for that key has produced its screenshot, the entry being that
\* screenshot, which is also the body of the response.
C22_FailedCaptureStoresNothing ==
  [][/\ (sent' # sent /\ sent'.status \notin {0, 200}) => cache' = cache
     /\ \A key \in Keys :
          (cache'[key] # cache[key] /\ cache'[key] # NoEntry)
            => \E k \in Calls :
                 /\ pc[k] = "holding" /\ pc'[k] = "cleanup" /\ rkey[k] = key
                 /\ cache'[key] = [value |-> k, expiresAt |-> now + CACHE_TTL]
                 /\ sent' = Response(k, 200, "MISS", key, k)]_vars

\* C22 witness: the render of the second request has failed with a timeout
\* and its key has no entry, while the cache holds what the first request
\* rendered.
C22_Witness ==
  /\ pc[2] = "cleanup"
  /\ sent = Response(2, 408, "none", "none", 0)
  /\ cache[rkey[2]] = NoEntry
  /\ \E key \in Keys : cache[key].value = 1

\* C24: a handler that got a browser from acquireBrowser has passed it to
\* releaseBrowser by the time it ends, whether it ends well or in an error:
\* no handler that is over still has the browser it acquired.
C24_EndedHandlerHasReleased ==
  \A k \in Calls : pc[k] = "done" => held[k] = NoBrowser

\* C26: every request to GET /screenshot, whether it is answered from the
\* cache, rendered or failed, leaves the cleanup timer rescheduled: when the
\* request is over, the timer is set to fire IDLE_TIMEOUT from then.
C26_EveryRequestReschedules ==
  [][\A k \in Calls :
       (pc[k] # "done" /\ pc'[k] = "done") => idleTimeout' = scheduleCleanup(now)]_vars

\* the callback of the cleanup timer runs in this step
TimerFires == idleTimeout # NoTimer /\ idleTimeout' = NoTimer

\* C27: when the cleanup timer fires, it calls shutdown() and, after it,
\* cache.clear() if at least IDLE_TIMEOUT has passed since lastActivity, and
\* does nothing otherwise; and when it fires with the pool already shut down,
\* the pool is as it was: no browsers, no waiters, still shutting down.
C27_TimerShutsDownIffIdle ==
  [][TimerFires =>
       /\ now - lastActivity >= IDLE_TIMEOUT
            => /\ isShuttingDown'
               /\ closing' \/ (Len(browsers') = 0 /\ cache' = cacheClear)
       /\ now - lastActivity < IDLE_TIMEOUT
            => UNCHANGED <<browsers, availableBrowsers, waitingQueue, isShuttingDown,
                           connected, pc, closing, cache>>
       /\ (isShuttingDown /\ ~closing)
            => /\ UNCHANGED <<browsers, availableBrowsers, waitingQueue, isShuttingDown,
                              connected>>
               /\ Len(browsers') = 0
               /\ waitingQueue' = <<>>]_vars

\* C28: when the render of a request has failed with a protocol error of its
\* browser, the release at the end of the handler takes that browser out of
\* the pool: it is not in browsers, not in availableBrowsers and given to no
\* parked caller, whether or not it still reports connected.
C28_CrashedBrowserLeavesPool ==
  [][\A k \in Calls :
       (pc[k] = "cleanup" /\ err[k] = "protocol" /\ pc'[k] = "done")
         => /\ held[k] \notin Range(browsers')
            /\ held[k] \notin Range(availableBrowsers')
            /\ \A j \in Calls : held'[j] # held[k]]_vars

\* no request is in flight: each has been answered or has not arrived
NoneInFlight == \A k \in Calls : pc[k] \in {"idle", "done"}

\* the least of it: a service that has been idle for longer than IDLE_TIMEOUT
\* with no request in flight is not left with a browser in a pool that was
\* never shut down
IdleAfterAnsweredIsShutDown ==
  ~(/\ listening
    /\ NoneInFlight
    /\ now - lastEvent > IDLE_TIMEOUT
    /\ Len(browsers) > 0
    /\ ~isShuttingDown)

\* C37: the callback of the cleanup timer never shuts the pool down while a
\* request is in flight, that is, has arrived and missed the cache and has
\* not reached the end of its handler.
C37_NoShutdownWhileInFlight ==
  [][(idleTimeout = now /\ idleTimeout' = NoTimer /\ ~isShuttingDown /\ isShuttingDown')
       => NoneInFlight]_vars

\* C38: isShuttingDown is never cleared once it is set: after the shutdown()
\* that the cleanup timer called has returned, every acquire that is called
\* is rejected with the shutdown error, and no request is rendered any more.
C38_NoRenderAfterReap ==
  [][/\ isShuttingDown => isShuttingDown'
     /\ (isShuttingDown /\ ~closing) =>
          \A k \in Calls :
            /\ (pc[k] \in {"idle", "queued"} /\ pc'[k] \notin {"idle", "queued", "done"})
                 => (pc'[k] = "failed" /\ err'[k] \in {"shutdown", "badurl"})
            /\ ~(pc[k] = "holding" /\ pc'[k] = "cleanup" /\ sent'.xcache = "MISS")]_vars

\* C40: the string that the cache key is the hash of is injective in url,
\* width, height, fullPage and type: two requests with the same key are
\* rendered with the same five parameters.
C40_KeyStringInjective ==
  (kpc = "two" /\ keyA = keyB) => renderParams(reqA) = renderParams(reqB)

\* C34: of the requests for one key within one freshness window, the first
\* still being rendered or not, at most one is rendered: no request's render
\* ends, with X-Cache MISS, while the cache holds a live entry of its key.
C34_OneRenderPerWindow ==
  [][\A k \in Calls :
       (pc[k] = "holding" /\ pc'[k] = "cleanup" /\ sent'.req = k /\ sent'.xcache = "MISS")
         => ~(rkey[k] \in LiveKeys(cache, now))]_vars

====
